---- MODULE Spec2Model ----
(***************************************************************************)
(* The KMS device of src/backends/native/meta-kms-device.c: a MetaKmsDevice *)
(* handle owned by caller contexts, the backend (MetaKmsImplDevice) it      *)
(* binds at construction, the cached crtcs/connectors/planes GLists, and    *)
(* the tasks the device runs in the privileged (impl) context through       *)
(* meta_kms_run_impl_task_sync.                                             *)
(***************************************************************************)
EXTENDS Integers, Sequences, FiniteSets, TLC

\* ------------------------------------------------------------------ bounds
\* GList heads allocated in one run (an address is never reused).
MaxAllocs == 5
\* CRTCs, and as many connectors, a backend may enumerate.
MaxCrtcs == 1
\* Placeholder planes a backend synthesizes in one run.
MaxFakePlanes == 1
\* The same where the planes are looked up: room for a primary and a cursor
\* placeholder.
MaxLookupFakePlanes == 2

\* --------------------------------------------------------------- constants
NULL == 0

\* The contexts that call the device; the first owns it from construction
\* to teardown.
Callers == {"c1", "c2"}
MainCallers == {"c1"}
NoCaller == "none"

RequestedPath == "/dev/dri/card0"
CanonicalPath == "/sys/devices/gpu0/card0"
NoString == "null"

\* The bits of MetaKmsDeviceFlag the device reads, and one it only carries.
CallerFlags == {"NO_MODE_SETTING", "BOOT_VGA"}

\* How a g_initable_new of a backend type ends: an instance, a GError of
\* domain META_KMS_ERROR, or a GError of any other domain.
Outcomes == {"ok", "kms_error", "other_error"}

\* MetaKmsUpdateChanges as a set of change bits; NONE is the empty set.
ChangeBits == {"mode", "gamma"}
META_KMS_UPDATE_CHANGE_NONE == {}

PlaneTypes == {"primary", "cursor", "overlay"}

\* ---------------------------------------------------------------- objects
Crtc(k) == [kind |-> "crtc", id |-> k]
Connector(k) == [kind |-> "connector", id |-> k]
Plane(k, t, c) == [kind |-> "plane", id |-> k, type |-> t, crtc |-> c,
                   fake |-> FALSE, serial |-> 0]

\* One primary plane for each of the first n CRTCs, in kernel order.
PlanesFor(n) == [i \in 1..n |-> Plane(i, "primary", i)]

\* What a backend can enumerate on a device: some CRTCs with a connector
\* each, and real planes either for every CRTC or for none.
Topology(nc, np) ==
  [crtcs |-> [i \in 1..nc |-> Crtc(i)],
   connectors |-> [i \in 1..nc |-> Connector(i)],
   planes |-> PlanesFor(np)]

Topologies ==
  UNION { {Topology(nc, 0), Topology(nc, nc)} : nc \in 0..MaxCrtcs }

DriverName(type) ==
  CASE type = "atomic" -> "drv-atomic"
    [] type = "simple" -> "drv-simple"
    [] OTHER -> "drv-dummy"

\* impl_device_type_to_string
impl_device_type_to_string(type) ==
  CASE type = "atomic" -> "atomic modesetting"
    [] type = "simple" -> "legacy modesetting"
    [] type = "dummy" -> "no modesetting"

VARIABLES
  life,        \* the MetaKmsDevice object: "unborn", "new", "alive", "finalizing", "freed"
  device,      \* the fields of struct _MetaKmsDevice
  data,        \* the CreateImplDeviceData of meta_kms_device_new
  impl,        \* the backend instance (MetaKmsImplDevice) and its live state
  registered,  \* backends added with meta_kms_impl_add_impl_device
  heap,        \* the GLists: [n |-> heads allocated, m |-> address -> cell]
  running,     \* the caller whose task the privileged context runs
  tpc,         \* where the running task is
  idx,         \* the loop index i of meta_create_kms_impl_device
  pc,          \* per caller: "idle" or "waiting"
  call,        \* per caller: the call in progress
  ret,         \* per caller: what its last call returned
  attempts,    \* the g_initable_new calls made, in order
  warnings,    \* the g_warning calls made, in order
  error,       \* the GError set for the caller of meta_kms_device_new
  reader,      \* list heads a reading context got from the getters
  seen,        \* what each of those lists held when it was obtained
  published,   \* every (crtcs, connectors, planes) the device has cached
  reported,    \* what the backend last copied out at creation or on a change
  fakeSince,   \* planes appended by add_fake_plane since `reported`
  nfake        \* placeholder planes synthesized so far

vars == <<life, device, data, impl, registered, heap, running, tpc, idx, pc,
          call, ret, attempts, warnings, error, reader, seen, published,
          reported, fakeSince, nfake>>

\* ------------------------------------------------------------------ GList
Addrs == 1..MaxAllocs

Unused == [st |-> "unused", items |-> <<>>]
Freed == [st |-> "freed", items |-> <<>>]

EmptyHeap == [n |-> 0, m |-> [a \in Addrs |-> Unused]]

Live(h, p) == p = NULL \/ h.m[p].st = "live"

\* The elements of the list headed at p.
Items(h, p) == IF p = NULL THEN <<>> ELSE h.m[p].items

\* g_list_copy of a list with elements s: the new heap and the new head.
g_list_copy(h, s) ==
  IF s = <<>> THEN [h |-> h, p |-> NULL]
  ELSE [h |-> [n |-> h.n + 1,
               m |-> [h.m EXCEPT ![h.n + 1] = [st |-> "live", items |-> s]]],
        p |-> h.n + 1]

\* g_list_free: the cells go back to the allocator.
g_list_free(h, p) ==
  IF p = NULL THEN h ELSE [h EXCEPT !.m[p] = Freed]

g_list_prepend(h, p, x) ==
  IF p = NULL THEN g_list_copy(h, <<x>>)
  ELSE [h |-> [h EXCEPT !.m[p].items = <<x>> \o @], p |-> p]

\* g_list_append: a NULL list gets a new head, any other grows in place.
g_list_append(h, p, x) ==
  IF p = NULL THEN g_list_copy(h, <<x>>)
  ELSE [h |-> [h EXCEPT !.m[p].items = Append(@, x)], p |-> p]

\* ------------------------------------------------------------ the backend
NoImplDevice == "NULL"

NoImpl ==
  [type |-> "none", path |-> NoString, driver_name |-> NoString,
   driver_description |-> NoString, caps |-> [addfb2_modifiers |-> FALSE],
   fallback_modes |-> <<>>, crtcs |-> <<>>, connectors |-> <<>>,
   planes |-> <<>>, disabled |-> FALSE, released |-> FALSE]

FallbackModes(type) == IF type = "dummy" THEN <<>> ELSE <<"800x600", "640x480">>

\* A backend instance as g_initable_new leaves it: the topology it
\* enumerated, its capabilities and the path and driver it reports.
NewBackend(type, topo, addfb2, path) ==
  [type |-> type, path |-> path, driver_name |-> DriverName(type),
   driver_description |-> impl_device_type_to_string(type),
   caps |-> [addfb2_modifiers |-> addfb2],
   fallback_modes |-> FallbackModes(type),
   crtcs |-> topo.crtcs, connectors |-> topo.connectors,
   planes |-> topo.planes, disabled |-> FALSE, released |-> FALSE]

\* The hardware a backend can find behind the device path: any topology,
\* with or without addfb2 modifiers, under the requested path or another.
Hardware ==
  {[topo |-> t, addfb2 |-> a, path |-> p] :
     t \in Topologies, a \in BOOLEAN, p \in {RequestedPath, CanonicalPath}}

\* The same topologies on hardware that differs in nothing else.
PlainHardware ==
  {[topo |-> t, addfb2 |-> FALSE, path |-> RequestedPath] : t \in Topologies}

\* meta_kms_impl_device_copy_crtcs / _connectors / _planes: g_list_copy of
\* the backend's live list.
meta_kms_impl_device_copy_crtcs(h, b) == g_list_copy(h, b.crtcs)
meta_kms_impl_device_copy_connectors(h, b) == g_list_copy(h, b.connectors)
meta_kms_impl_device_copy_planes(h, b) == g_list_copy(h, b.planes)

\* ------------------------------------------------------------- the device
ZeroDevice ==
  [kms |-> "kms", impl_device |-> NoImplDevice, flags |-> {},
   path |-> NoString, driver_name |-> NoString,
   driver_description |-> NoString, crtcs |-> NULL, connectors |-> NULL,
   planes |-> NULL, caps |-> [addfb2_modifiers |-> FALSE],
   fallback_modes |-> <<>>]

ZeroData ==
  [path |-> NoString, flags |-> {}, out_impl_device |-> NoImplDevice,
   out_crtcs |-> NULL, out_connectors |-> NULL, out_planes |-> NULL,
   out_caps |-> [addfb2_modifiers |-> FALSE], out_fallback_modes |-> <<>>,
   out_driver_name |-> NoString, out_driver_description |-> NoString,
   out_path |-> NoString]

NoCall == [op |-> "none"]
NoRet == [op |-> "none"]
NoError == "none"
NoSuitableBackend == "No suitable mode setting backend found"

Init ==
  /\ life = "unborn"
  /\ device = ZeroDevice
  /\ data = ZeroData
  /\ impl = NoImpl
  /\ registered = {}
  /\ heap = EmptyHeap
  /\ running = NoCaller
  /\ tpc = "none"
  /\ idx = 0
  /\ pc = [c \in Callers |-> "idle"]
  /\ call = [c \in Callers |-> NoCall]
  /\ ret = [c \in Callers |-> NoRet]
  /\ attempts = <<>>
  /\ warnings = <<>>
  /\ error = NoError
  /\ reader = [got |-> {}, crtcs |-> NULL, connectors |-> NULL, planes |-> NULL]
  /\ seen = [crtcs |-> <<>>, connectors |-> <<>>, planes |-> <<>>]
  /\ published = {}
  /\ reported = [crtcs |-> <<>>, connectors |-> <<>>, planes |-> <<>>]
  /\ fakeSince = <<>>
  /\ nfake = 0

\* ---------------------------------------------------- the task dispatcher
\* meta_kms_run_impl_task_sync: the caller hands a task to the privileged
\* context and is suspended until the task has returned.
DispatchUnguarded(c, op, first) ==
  /\ pc[c] = "idle"
  /\ running' = c
  /\ tpc' = first
  /\ pc' = [pc EXCEPT ![c] = "waiting"]
  /\ call' = [call EXCEPT ![c] = op]

Dispatch(c, op, first) ==
  /\ pc[c] = "idle"
  /\ running = NoCaller
  /\ running' = c
  /\ tpc' = first
  /\ pc' = [pc EXCEPT ![c] = "waiting"]
  /\ call' = [call EXCEPT ![c] = op]

\* The task of caller c is at point p of the privileged context.
InImpl(c, op, p) == running = c /\ call[c].op = op /\ tpc = p

\* The task returned; the caller resumes with value r.
Resume(c, r) ==
  /\ running' = NoCaller
  /\ tpc' = "none"
  /\ pc' = [pc EXCEPT ![c] = "returned"]
  /\ call' = [call EXCEPT ![c] = NoCall]
  /\ ret' = [ret EXCEPT ![c] = r]

\* The caller has used what its call returned and goes on.
Continue(c) ==
  /\ pc[c] = "returned"
  /\ pc' = [pc EXCEPT ![c] = "idle"]
  /\ ret' = [ret EXCEPT ![c] = NoRet]
  /\ UNCHANGED <<life, device, data, impl, registered, heap, running, tpc,
                 idx, call, attempts, warnings, error, reader, seen,
                 published, reported, fakeSince, nfake>>

\* ----------------------------------------------------- context assertions
\* The context a function called by c runs in: the privileged one when the
\* dispatcher is running c's task, else c's own.
Context(c) == IF running = c THEN "impl" ELSE "caller"

\* meta_assert_in_kms_impl and meta_assert_not_in_kms_impl hold.
meta_assert_in_kms_impl(ctx) == ctx = "impl"
meta_assert_not_in_kms_impl(ctx) == ctx # "impl"

\* The functions that begin with meta_assert_in_kms_impl.
ImplOnlyOps ==
  {"update_states", "add_fake_plane", "find_crtc", "find_connector",
   "create"}

\* Whether the assertion a function begins with, if it has one, holds in
\* context ctx.
AssertsNothing(op, ctx) == TRUE
ContextAssertion(op, ctx) ==
  CASE op \in ImplOnlyOps -> meta_assert_in_kms_impl(ctx)
    [] op = "disable" -> meta_assert_not_in_kms_impl(ctx)
    [] OTHER -> TRUE

\* A failed assertion ends the program.
Abort ==
  /\ life' = "aborted"
  /\ tpc' = "aborted"
  /\ UNCHANGED <<device, data, impl, registered, heap, running, idx, pc,
                 call, ret, attempts, warnings, error, reader, seen,
                 published, reported, fakeSince, nfake>>

\* Function fn has been called for c: by c's task in the privileged
\* context, at point p of that task, or by c itself.
Called(c, fn, task, p) ==
  /\ life # "aborted"
  /\ \/ InImpl(c, task, p)
     \/ pc[c] = "calling" /\ call[c].op = fn /\ running = NoCaller

\* --------------------------------------------------------- construction
\* meta_kms_device_new up to the dispatch of create_impl_device_in_impl.
MetaKmsDeviceNew(c, FlagSets) ==
  \E flags \in FlagSets :
    /\ life = "unborn"
    /\ Dispatch(c, [op |-> "new"], "select")
    /\ life' = "new"
    /\ device' = ZeroDevice
    /\ data' = [ZeroData EXCEPT !.path = RequestedPath, !.flags = flags]
    /\ idx' = 0
    /\ UNCHANGED <<impl, registered, heap, ret, attempts, warnings, error,
                   reader, seen, published, reported, fakeSince, nfake>>

\* flags & META_KMS_DEVICE_FLAG_NO_MODE_SETTING
NoModeSettingIgnored(flags) == FALSE
NoModeSetting(flags) == "NO_MODE_SETTING" \in flags

impl_device_types_swapped == <<"simple", "atomic">>
impl_device_types == <<"atomic", "simple">>

\* The backend type the next g_initable_new is for.
Candidate(flags, i) ==
  IF NoModeSetting(flags) THEN "dummy" ELSE impl_device_types[i + 1]

\* local_error->domain != META_KMS_ERROR
Warns(outcome) == outcome # "kms_error"

\* The loop index after a failed candidate: the loop goes on whatever the
\* error was.
IndexAfterUnexpectedStops(outcome, i) ==
  IF outcome = "other_error" THEN Len(impl_device_types) ELSE i + 1
IndexAfterFailure(outcome, i) == i + 1

\* The error meta_create_kms_impl_device leaves when no candidate is left.
ExhaustedError(outcome) == NoSuitableBackend

\* meta_create_kms_impl_device: one g_initable_new and what follows it. The
\* environment decides how the g_initable_new ends (Outs) and what hardware
\* a backend that opened the device finds (Hw).
MetaCreateKmsImplDevice(c, Outs, Hw) ==
  /\ Called(c, "create", "new", "select")
  /\ IF ~ContextAssertion("create", Context(c)) THEN Abort ELSE
     /\ LET type == Candidate(data.flags, idx) IN
        \E outcome \in Outs :
          /\ attempts' = Append(attempts, [type |-> type, outcome |-> outcome])
          /\ IF outcome = "ok"
             THEN /\ \E hw \in Hw :
                        impl' = NewBackend(type, hw.topo, hw.addfb2, hw.path)
                  /\ tpc' = "created"
                  /\ UNCHANGED <<idx, warnings, error>>
             ELSE IF NoModeSetting(data.flags)
             THEN /\ error' = outcome
                  /\ tpc' = "failed"
                  /\ UNCHANGED <<impl, idx, warnings>>
             ELSE /\ warnings' = IF Warns(outcome)
                                 THEN Append(warnings, impl_device_type_to_string(type))
                                 ELSE warnings
                  /\ idx' = IndexAfterFailure(outcome, idx)
                  /\ IF idx' < Len(impl_device_types)
                     THEN tpc' = "select" /\ UNCHANGED error
                     ELSE tpc' = "failed" /\ error' = ExhaustedError(outcome)
                  /\ UNCHANGED impl
     /\ UNCHANGED <<life, device, data, registered, heap, running, pc, call,
                    ret, reader, seen, published, reported, fakeSince, nfake>>

\* Whether create_impl_device_in_impl registers the backend it got.
RegistersAlways(created) == TRUE
Registers(created) == created

\* create_impl_device_in_impl after meta_create_kms_impl_device returned.
CreateImplDeviceInImpl(c) ==
  /\ running = c /\ call[c].op = "new" /\ tpc \in {"created", "failed"}
  /\ LET created == tpc = "created"
         h1 == meta_kms_impl_device_copy_crtcs(heap, impl)
         h2 == meta_kms_impl_device_copy_connectors(h1.h, impl)
         h3 == meta_kms_impl_device_copy_planes(h2.h, impl)
     IN /\ registered' = IF Registers(created)
                         THEN registered \cup {impl.type}
                         ELSE registered
        /\ IF created
           THEN /\ data' = [data EXCEPT
                              !.out_impl_device = impl.type,
                              !.out_crtcs = h1.p,
                              !.out_connectors = h2.p,
                              !.out_planes = h3.p,
                              !.out_caps = impl.caps,
                              !.out_fallback_modes = impl.fallback_modes,
                              !.out_driver_name = impl.driver_name,
                              !.out_driver_description = impl.driver_description,
                              !.out_path = impl.path]
                /\ heap' = h3.h
                /\ reported' = [crtcs |-> impl.crtcs,
                                connectors |-> impl.connectors,
                                planes |-> impl.planes]
                /\ call' = [call EXCEPT ![c] = [op |-> "new", result |-> TRUE]]
           ELSE /\ call' = [call EXCEPT ![c] = [op |-> "new", result |-> FALSE]]
                /\ UNCHANGED <<data, heap, reported>>
  /\ tpc' = "done"
  /\ UNCHANGED <<life, device, impl, running, idx, pc, ret, attempts,
                 warnings, error, reader, seen, published, fakeSince, nfake>>

DeviceFlagsFromCaps(flags, caps) ==
  IF caps.addfb2_modifiers THEN {"HAS_ADDFB2"} ELSE flags

\* device->flags after construction: the requested flags, and HAS_ADDFB2
\* when the capabilities report addfb2_modifiers.
DeviceFlags(flags, caps) ==
  IF caps.addfb2_modifiers THEN flags \cup {"HAS_ADDFB2"} ELSE flags

\* The fields meta_kms_device_new sets once the task succeeded.
AdoptWithoutImplDevice(dev, d) ==
  [dev EXCEPT !.flags = DeviceFlags(d.flags, d.out_caps),
              !.path = d.out_path,
              !.crtcs = d.out_crtcs,
              !.connectors = d.out_connectors,
              !.planes = d.out_planes,
              !.caps = d.out_caps,
              !.fallback_modes = d.out_fallback_modes,
              !.driver_name = d.out_driver_name,
              !.driver_description = d.out_driver_description]
AdoptRequestedPath(dev, d) ==
  [dev EXCEPT !.impl_device = d.out_impl_device,
              !.flags = DeviceFlags(d.flags, d.out_caps),
              !.path = d.path,
              !.crtcs = d.out_crtcs,
              !.connectors = d.out_connectors,
              !.planes = d.out_planes,
              !.caps = d.out_caps,
              !.fallback_modes = d.out_fallback_modes,
              !.driver_name = d.out_driver_name,
              !.driver_description = d.out_driver_description]
Adopt(dev, d) ==
  [dev EXCEPT !.impl_device = d.out_impl_device,
              !.flags = DeviceFlags(d.flags, d.out_caps),
              !.path = d.out_path,
              !.crtcs = d.out_crtcs,
              !.connectors = d.out_connectors,
              !.planes = d.out_planes,
              !.caps = d.out_caps,
              !.fallback_modes = d.out_fallback_modes,
              !.driver_name = d.out_driver_name,
              !.driver_description = d.out_driver_description]

Snapshot(dev) == <<dev.crtcs, dev.connectors, dev.planes>>

\* The cached lists meta_kms_device_finalize frees.
FreeCached(h, dev) ==
  g_list_free(g_list_free(g_list_free(h, dev.crtcs), dev.connectors), dev.planes)

\* meta_kms_device_new once the task has returned.
MetaKmsDeviceNewReturn(c) ==
  /\ InImpl(c, "new", "done")
  /\ IF call[c].result
     THEN /\ device' = Adopt(device, data)
          /\ life' = "alive"
          /\ published' = {Snapshot(device')}
          /\ Resume(c, [op |-> "new", value |-> "device", error |-> NoError])
          /\ UNCHANGED heap
     ELSE \* g_object_unref: the last reference, so the device is finalized;
          \* its impl_device is NULL and no task is dispatched.
          /\ heap' = FreeCached(heap, device)
          /\ life' = "freed"
          /\ Resume(c, [op |-> "new", value |-> "NULL", error |-> error])
          /\ UNCHANGED <<device, published>>
  /\ UNCHANGED <<data, impl, registered, idx, attempts, warnings, error,
                 reader, seen, reported, fakeSince, nfake>>

\* ---------------------------------------------------------------- disable
\* meta_kms_device_disable up to the dispatch of disable_device_in_impl.
MetaKmsDeviceDisable(c) ==
  /\ life = "alive"
  /\ ContextAssertion("disable", Context(c))
  /\ Dispatch(c, [op |-> "disable", impl_device |-> device.impl_device], "run")
  /\ UNCHANGED <<life, device, data, impl, registered, heap, idx, ret,
                 attempts, warnings, error, reader, seen, published,
                 reported, fakeSince, nfake>>

\* meta_kms_impl_device_disable: the backend drops its outputs, or fails to
\* and says so in the log only.
meta_kms_impl_device_disable(b) ==
  {[b EXCEPT !.disabled = TRUE], b}

\* disable_device_in_impl: meta_kms_impl_device_disable, then TRUE.
DisableTogglesInImpl(c) ==
  /\ InImpl(c, "disable", "run")
  /\ impl' = [impl EXCEPT !.disabled = ~@]
  /\ tpc' = "done"
  /\ UNCHANGED <<life, device, data, registered, heap, running, idx, pc,
                 call, ret, attempts, warnings, error, reader, seen,
                 published, reported, fakeSince, nfake>>

DisableDeviceInImpl(c) ==
  /\ InImpl(c, "disable", "run")
  /\ impl' \in meta_kms_impl_device_disable(impl)
  /\ tpc' = "done"
  /\ UNCHANGED <<life, device, data, registered, heap, running, idx, pc,
                 call, ret, attempts, warnings, error, reader, seen,
                 published, reported, fakeSince, nfake>>

\* meta_kms_device_disable returns when meta_kms_run_impl_task_sync does.
DisableReturnsEarly(c) ==
  /\ InImpl(c, "disable", "run")
  /\ Resume(c, [op |-> "disable"])
  /\ UNCHANGED <<life, device, data, impl, registered, heap, idx, attempts,
                 warnings, error, reader, seen, published, reported,
                 fakeSince, nfake>>

MetaKmsDeviceDisableReturn(c) ==
  /\ InImpl(c, "disable", "done")
  /\ Resume(c, [op |-> "disable"])
  /\ UNCHANGED <<life, device, data, impl, registered, heap, idx, attempts,
                 warnings, error, reader, seen, published, reported,
                 fakeSince, nfake>>

\* ---------------------------------------------------------- process_update
\* A MetaKmsUpdate records the device it was made for; each caller submits
\* updates of its own.
Updates(c) == {[device |-> d, id |-> c] : d \in {"device", "other"}}
UpdateFlags == {"NONE"}

\* meta_kms_device_get_kms
meta_kms_device_get_kms(dev) == dev.kms

ImplDeviceOfDeviceArgument(update) == device.impl_device

\* meta_kms_device_get_impl_device (meta_kms_update_get_device (update))
ImplDeviceOfUpdate(update) ==
  IF update.device = "device" THEN device.impl_device ELSE "other-impl"

\* meta_kms_device_process_update_sync up to the dispatch.
MetaKmsDeviceProcessUpdateSync(c) ==
  \E update \in Updates(c), flags \in UpdateFlags :
    /\ life = "alive"
    /\ Dispatch(c, [op |-> "process_update",
                    kms |-> meta_kms_device_get_kms(device),
                    update |-> update, flags |-> flags], "run")
    /\ UNCHANGED <<life, device, data, impl, registered, heap, idx, ret,
                   attempts, warnings, error, reader, seen, published,
                   reported, fakeSince, nfake>>

\* process_update_in_impl: the backend of the update's device processes the
\* update and hands back a feedback object.
ProcessUpdateInImpl(c) ==
  /\ InImpl(c, "process_update", "run")
  /\ \E outcome \in {"passed", "failed"} :
       call' = [call EXCEPT ![c] =
                  [op |-> "process_update", kms |-> call[c].kms,
                   feedback |-> [result |-> outcome,
                                 update |-> call[c].update,
                                 by |-> ImplDeviceOfUpdate(call[c].update),
                                 flags |-> call[c].flags]]]
  /\ tpc' = "done"
  /\ UNCHANGED <<life, device, data, impl, registered, heap, running, idx,
                 pc, ret, attempts, warnings, error, reader, seen,
                 published, reported, fakeSince, nfake>>

\* meta_kms_device_process_update_sync returns what the task returned.
ProcessUpdateReportsSuccess(c) ==
  /\ InImpl(c, "process_update", "done")
  /\ Resume(c, [op |-> "process_update",
                feedback |-> [call[c].feedback EXCEPT !.result = "passed"]])
  /\ UNCHANGED <<life, device, data, impl, registered, heap, idx, attempts,
                 warnings, error, reader, seen, published, reported,
                 fakeSince, nfake>>

MetaKmsDeviceProcessUpdateSyncReturn(c) ==
  /\ InImpl(c, "process_update", "done")
  /\ Resume(c, [op |-> "process_update", feedback |-> call[c].feedback])
  /\ UNCHANGED <<life, device, data, impl, registered, heap, idx, attempts,
                 warnings, error, reader, seen, published, reported,
                 fakeSince, nfake>>

\* ------------------------------------------------------------ update_states
\* What meta_kms_impl_device_update_states can answer: nothing changed, or
\* the backend re-read the device and reports a change.
BackendUpdateStates(b, crtc_id, connector_id) ==
  {[impl |-> b, changes |-> META_KMS_UPDATE_CHANGE_NONE]}
  \cup {[impl |-> [b EXCEPT !.crtcs = topo.crtcs,
                            !.connectors = topo.connectors,
                            !.planes = topo.planes],
         changes |-> ch] :
          topo \in Topologies, ch \in (SUBSET ChangeBits) \ {{}}}

\* The (crtc_id, connector_id) a notification names: a CRTC or a connector.
NotifiedIds == {<<1, 0>>, <<0, 1>>}

\* The impl task that calls meta_kms_device_update_states_in_impl.
UpdateStatesSync(c) ==
  \E ids \in NotifiedIds :
    /\ life = "alive"
    /\ Dispatch(c, [op |-> "update_states", crtc_id |-> ids[1],
                    connector_id |-> ids[2]], "run")
    /\ UNCHANGED <<life, device, data, impl, registered, heap, idx, ret,
                   attempts, warnings, error, reader, seen, published,
                   reported, fakeSince, nfake>>

ReplaceCrtcsAndConnectors(h, dev, b) ==
  LET c1 == meta_kms_impl_device_copy_crtcs(g_list_free(h, dev.crtcs), b)
      c2 == meta_kms_impl_device_copy_connectors(
              g_list_free(c1.h, dev.connectors), b)
  IN [h |-> c2.h, dev |-> [dev EXCEPT !.crtcs = c1.p, !.connectors = c2.p]]

\* The three cached lists freed and replaced by copies of the backend's.
ReplaceCached(h, dev, b) ==
  LET c1 == meta_kms_impl_device_copy_crtcs(g_list_free(h, dev.crtcs), b)
      c2 == meta_kms_impl_device_copy_connectors(
              g_list_free(c1.h, dev.connectors), b)
      c3 == meta_kms_impl_device_copy_planes(g_list_free(c2.h, dev.planes), b)
  IN [h |-> c3.h,
      dev |-> [dev EXCEPT !.crtcs = c1.p, !.connectors = c2.p, !.planes = c3.p]]

\* The device's cache after the backend answered `changes`.
UpdateCachedAlways(h, dev, b, changes) == ReplaceCached(h, dev, b)
UpdateCachedPartly(h, dev, b, changes) ==
  IF changes = META_KMS_UPDATE_CHANGE_NONE
  THEN [h |-> h, dev |-> dev]
  ELSE ReplaceCrtcsAndConnectors(h, dev, b)
UpdateCached(h, dev, b, changes) ==
  IF changes = META_KMS_UPDATE_CHANGE_NONE
  THEN [h |-> h, dev |-> dev]
  ELSE ReplaceCached(h, dev, b)

\* The change set meta_kms_device_update_states_in_impl returns.
ReturnedChanges(changes) == changes

\* meta_kms_device_update_states_in_impl.
MetaKmsDeviceUpdateStatesInImpl(c) ==
  /\ Called(c, "update_states", "update_states", "run")
  /\ IF ~ContextAssertion("update_states", Context(c)) THEN Abort ELSE
     /\ \E r \in BackendUpdateStates(impl, call[c].crtc_id,
                                     call[c].connector_id) :
          LET u == UpdateCached(heap, device, r.impl, r.changes) IN
            /\ u.h.n <= MaxAllocs
            /\ impl' = r.impl
            /\ heap' = u.h
            /\ device' = u.dev
            /\ published' = published \cup {Snapshot(u.dev)}
            /\ IF r.changes = META_KMS_UPDATE_CHANGE_NONE
               THEN UNCHANGED <<reported, fakeSince>>
               ELSE /\ reported' = [crtcs |-> r.impl.crtcs,
                                    connectors |-> r.impl.connectors,
                                    planes |-> r.impl.planes]
                    /\ fakeSince' = <<>>
            /\ call' = [call EXCEPT ![c] =
                          [op |-> "update_states", crtc_id |-> call[c].crtc_id,
                           connector_id |-> call[c].connector_id,
                           backend |-> r.changes,
                           changes |-> ReturnedChanges(r.changes)]]
     /\ tpc' = "done"
     /\ UNCHANGED <<life, data, registered, running, idx, pc, ret, attempts,
                    warnings, error, reader, seen, nfake>>

UpdateStatesSyncReturn(c) ==
  /\ InImpl(c, "update_states", "done")
  /\ Resume(c, [op |-> "update_states", backend |-> call[c].backend,
                changes |-> call[c].changes])
  /\ UNCHANGED <<life, device, data, impl, registered, heap, idx, attempts,
                 warnings, error, reader, seen, published, reported,
                 fakeSince, nfake>>

\* ----------------------------------------------------------- add_fake_plane
\* meta_kms_impl_device_add_fake_plane: a placeholder plane for a CRTC. It
\* stands for no kernel object and so carries no kernel id: its id is 0.
FakePlane(plane_type, crtc, serial) ==
  [kind |-> "plane", id |-> 0, type |-> plane_type, crtc |-> crtc,
   fake |-> TRUE, serial |-> serial]

\* The impl task that calls meta_kms_device_add_fake_plane_in_impl, as long
\* as fewer than `most` placeholders were made.
AddFakePlane(c, most) ==
  \E plane_type \in {"primary", "cursor"},
     crtc \in {impl.crtcs[i].id : i \in 1..Len(impl.crtcs)} :
    /\ life = "alive"
    /\ nfake < most
    /\ Dispatch(c, [op |-> "add_fake_plane", plane_type |-> plane_type,
                    crtc |-> crtc], "run")
    /\ UNCHANGED <<life, device, data, impl, registered, heap, idx, ret,
                   attempts, warnings, error, reader, seen, published,
                   reported, fakeSince, nfake>>

\* meta_kms_device_add_fake_plane_in_impl.
MetaKmsDeviceAddFakePlaneInImpl(c) ==
  /\ Called(c, "add_fake_plane", "add_fake_plane", "run")
  /\ IF ~ContextAssertion("add_fake_plane", Context(c)) THEN Abort ELSE
     /\ LET plane == FakePlane(call[c].plane_type, call[c].crtc, nfake + 1)
            a == g_list_append(heap, device.planes, plane)
        IN /\ a.h.n <= MaxAllocs
           /\ heap' = a.h
           /\ device' = [device EXCEPT !.planes = a.p]
           /\ fakeSince' = Append(fakeSince, plane)
           /\ published' = published \cup {Snapshot(device')}
     /\ nfake' = nfake + 1
     /\ tpc' = "done"
     /\ UNCHANGED <<life, data, impl, registered, running, idx, pc, call, ret,
                    attempts, warnings, error, reader, seen, reported>>

AddFakePlaneReturn(c) ==
  /\ InImpl(c, "add_fake_plane", "done")
  /\ Resume(c, [op |-> "add_fake_plane"])
  /\ UNCHANGED <<life, device, data, impl, registered, heap, idx, attempts,
                 warnings, error, reader, seen, published, reported,
                 fakeSince, nfake>>

\* ---------------------------------------------------------------- teardown
FinalizeUnrefsInCaller(c) ==
  /\ life = "alive"
  /\ device.impl_device # NoImplDevice
  /\ pc[c] = "idle" /\ running = NoCaller
  /\ heap' = FreeCached(heap, device)
  /\ impl' = [impl EXCEPT !.released = TRUE]
  /\ life' = "freed"
  /\ pc' = [pc EXCEPT ![c] = "returned"]
  /\ ret' = [ret EXCEPT ![c] = [op |-> "unref"]]
  /\ UNCHANGED <<device, data, registered, running, tpc, idx, call,
                 attempts, warnings, error, reader, seen, published,
                 reported, fakeSince, nfake>>

\* meta_kms_device_finalize up to the dispatch of free_impl_device_in_impl.
MetaKmsDeviceFinalize(c) ==
  /\ life = "alive"
  /\ device.impl_device # NoImplDevice
  /\ Dispatch(c, [op |-> "free", impl_device |-> device.impl_device], "run")
  /\ heap' = FreeCached(heap, device)
  /\ life' = "finalizing"
  /\ UNCHANGED <<device, data, impl, registered, idx, ret, attempts,
                 warnings, error, reader, seen, published, reported,
                 fakeSince, nfake>>

\* free_impl_device_in_impl: g_object_unref of the backend.
FreeImplDeviceInImpl(c) ==
  /\ InImpl(c, "free", "run")
  /\ impl' = [impl EXCEPT !.released = TRUE]
  /\ tpc' = "done"
  /\ UNCHANGED <<life, device, data, registered, heap, running, idx, pc,
                 call, ret, attempts, warnings, error, reader, seen,
                 published, reported, fakeSince, nfake>>

\* The parent class's finalize: the device's memory is released.
MetaKmsDeviceFinalizeReturn(c) ==
  /\ InImpl(c, "free", "done")
  /\ life' = "freed"
  /\ Resume(c, [op |-> "unref"])
  /\ UNCHANGED <<device, data, impl, registered, heap, idx, attempts,
                 warnings, error, reader, seen, published, reported,
                 fakeSince, nfake>>

\* ----------------------------------------------------------------- readers
\* A context other than the privileged one calling the getters; it keeps
\* the heads it got until it lets go of them.
NotReader == <<life, device, data, impl, registered, heap, running, tpc,
               idx, pc, call, ret, attempts, warnings, error, published,
               reported, fakeSince, nfake>>

meta_kms_device_get_crtcs ==
  /\ life = "alive"
  /\ "crtcs" \notin reader.got
  /\ reader' = [reader EXCEPT !.got = @ \cup {"crtcs"}, !.crtcs = device.crtcs]
  /\ seen' = [seen EXCEPT !.crtcs = Items(heap, device.crtcs)]
  /\ UNCHANGED NotReader

meta_kms_device_get_connectors ==
  /\ life = "alive"
  /\ "connectors" \notin reader.got
  /\ reader' = [reader EXCEPT !.got = @ \cup {"connectors"},
                              !.connectors = device.connectors]
  /\ seen' = [seen EXCEPT !.connectors = Items(heap, device.connectors)]
  /\ UNCHANGED NotReader

meta_kms_device_get_planes ==
  /\ life = "alive"
  /\ "planes" \notin reader.got
  /\ reader' = [reader EXCEPT !.got = @ \cup {"planes"}, !.planes = device.planes]
  /\ seen' = [seen EXCEPT !.planes = Items(heap, device.planes)]
  /\ UNCHANGED NotReader

\* The reader is done with the lists it holds.
ReaderRelease ==
  /\ reader.got # {}
  /\ reader' = [got |-> {}, crtcs |-> NULL, connectors |-> NULL, planes |-> NULL]
  /\ seen' = [crtcs |-> <<>>, connectors |-> <<>>, planes |-> <<>>]
  /\ UNCHANGED NotReader

\* ------------------------------------------------------------ find in impl
\* What a find returns when no element has the id.
NoObject == [kind |-> "NULL"]

\* The ids a find may be asked for: the device's, and some that are not.
LookupIds == 0..(MaxCrtcs + 1)

peek_cached_crtcs(b) == Items(heap, device.crtcs)

\* meta_kms_impl_device_peek_crtcs / _connectors: the backend's live lists.
meta_kms_impl_device_peek_crtcs(b) == b.crtcs
meta_kms_impl_device_peek_connectors(b) == b.connectors

\* The loop of find_crtc_in_impl and find_connector_in_impl.
RECURSIVE FindById(_, _)
FindById(list, id) ==
  IF list = <<>> THEN NoObject
  ELSE IF Head(list).id = id THEN Head(list)
  ELSE FindById(Tail(list), id)

\* The impl task that calls a find for a kernel id it holds.
FindInImpl(c) ==
  \E fn \in {"find_crtc", "find_connector"}, id \in LookupIds :
    /\ life = "alive"
    /\ Dispatch(c, [op |-> fn, id |-> id], "run")
    /\ UNCHANGED <<life, device, data, impl, registered, heap, idx, ret,
                   attempts, warnings, error, reader, seen, published,
                   reported, fakeSince, nfake>>

meta_kms_device_find_crtc_in_impl(c) ==
  /\ Called(c, "find_crtc", "find_crtc", "run")
  /\ IF ~ContextAssertion("find_crtc", Context(c)) THEN Abort ELSE
     /\ call' = [call EXCEPT ![c] =
                   [op |-> "find_crtc", id |-> call[c].id,
                    found |-> FindById(meta_kms_impl_device_peek_crtcs(impl),
                                       call[c].id)]]
     /\ tpc' = "done"
     /\ UNCHANGED <<life, device, data, impl, registered, heap, running, idx,
                    pc, ret, attempts, warnings, error, reader, seen,
                    published, reported, fakeSince, nfake>>

meta_kms_device_find_connector_in_impl(c) ==
  /\ Called(c, "find_connector", "find_connector", "run")
  /\ IF ~ContextAssertion("find_connector", Context(c)) THEN Abort ELSE
     /\ call' = [call EXCEPT ![c] =
                   [op |-> "find_connector", id |-> call[c].id,
                    found |-> FindById(
                                meta_kms_impl_device_peek_connectors(impl),
                                call[c].id)]]
     /\ tpc' = "done"
     /\ UNCHANGED <<life, device, data, impl, registered, heap, running, idx,
                    pc, ret, attempts, warnings, error, reader, seen,
                    published, reported, fakeSince, nfake>>

FindInImplReturn(c) ==
  \E fn \in {"find_crtc", "find_connector"} :
    /\ InImpl(c, fn, "done")
    /\ Resume(c, [op |-> fn, id |-> call[c].id, value |-> call[c].found])
    /\ UNCHANGED <<life, device, data, impl, registered, heap, idx, attempts,
                   warnings, error, reader, seen, published, reported,
                   fakeSince, nfake>>

\* meta_kms_device_update_states_in_impl up to and into its call of
\* meta_kms_impl_device_update_states: the backend has re-read the device
\* and not yet returned, so the cached lists are still the old ones.
UpdateStatesEntersBackend(c) ==
  /\ InImpl(c, "update_states", "run")
  /\ ContextAssertion("update_states", Context(c))
  /\ \E r \in BackendUpdateStates(impl, call[c].crtc_id,
                                  call[c].connector_id) :
       /\ impl' = r.impl
       /\ call' = [call EXCEPT ![c] =
                     [op |-> "update_states", crtc_id |-> call[c].crtc_id,
                      connector_id |-> call[c].connector_id,
                      pending |-> r.changes, find |-> "none", id |-> 0,
                      found |-> NoObject]]
  /\ tpc' = "in_backend"
  /\ UNCHANGED <<life, device, data, registered, heap, running, idx, pc,
                 ret, attempts, warnings, error, reader, seen, published,
                 reported, fakeSince, nfake>>

\* The backend, inside meta_kms_impl_device_update_states, asks for the
\* object of a kernel id: meta_kms_device_find_crtc_in_impl or
\* meta_kms_device_find_connector_in_impl called within the running task.
FindDuringUpdateStates(c) ==
  /\ InImpl(c, "update_states", "in_backend")
  /\ \E fn \in {"find_crtc", "find_connector"}, id \in LookupIds :
       /\ ContextAssertion(fn, Context(c))
       /\ call' = [call EXCEPT
                     ![c].find = fn,
                     ![c].id = id,
                     ![c].found =
                       FindById(IF fn = "find_crtc"
                                THEN meta_kms_impl_device_peek_crtcs(impl)
                                ELSE meta_kms_impl_device_peek_connectors(impl),
                                id)]
  /\ UNCHANGED <<life, device, data, impl, registered, heap, running, tpc,
                 idx, pc, ret, attempts, warnings, error, reader, seen,
                 published, reported, fakeSince, nfake>>

\* meta_kms_impl_device_update_states returned its changes: the rest of
\* meta_kms_device_update_states_in_impl.
UpdateStatesLeavesBackend(c) ==
  /\ InImpl(c, "update_states", "in_backend")
  /\ LET changes == call[c].pending
         u == UpdateCached(heap, device, impl, changes)
     IN /\ u.h.n <= MaxAllocs
        /\ heap' = u.h
        /\ device' = u.dev
        /\ published' = published \cup {Snapshot(u.dev)}
        /\ IF changes = META_KMS_UPDATE_CHANGE_NONE
           THEN UNCHANGED <<reported, fakeSince>>
           ELSE /\ reported' = [crtcs |-> impl.crtcs,
                                connectors |-> impl.connectors,
                                planes |-> impl.planes]
                /\ fakeSince' = <<>>
        /\ call' = [call EXCEPT ![c] =
                      [op |-> "update_states", crtc_id |-> call[c].crtc_id,
                       connector_id |-> call[c].connector_id,
                       backend |-> changes,
                       changes |-> ReturnedChanges(changes)]]
  /\ tpc' = "done"
  /\ UNCHANGED <<life, data, impl, registered, running, idx, pc, ret,
                 attempts, warnings, error, reader, seen, nfake>>

\* ------------------------------------------------- calls in the wrong context
\* The calls of privileged-only functions a caller context could make itself.
DirectCalls ==
  {[op |-> "update_states", crtc_id |-> ids[1], connector_id |-> ids[2]] :
     ids \in NotifiedIds}
  \cup {[op |-> "add_fake_plane", plane_type |-> t, crtc |-> 1] :
          t \in {"primary", "cursor"}}
  \cup {[op |-> fn, id |-> i] :
          fn \in {"find_crtc", "find_connector"}, i \in LookupIds}

\* A caller context calls a privileged-only function without dispatching a
\* task: on a live device, or meta_create_kms_impl_device before there is one.
CallFromCaller(c) ==
  \E op \in DirectCalls \cup {[op |-> "create"]} :
    /\ life = (IF op.op = "create" THEN "unborn" ELSE "alive")
    /\ pc[c] = "idle"
    /\ running = NoCaller
    /\ pc' = [pc EXCEPT ![c] = "calling"]
    /\ call' = [call EXCEPT ![c] = op]
    /\ UNCHANGED <<life, device, data, impl, registered, heap, running, tpc,
                   idx, ret, attempts, warnings, error, reader, seen,
                   published, reported, fakeSince, nfake>>

\* A task function running in the privileged context calls
\* meta_kms_device_disable.
TaskCallsDisable(c) ==
  /\ life = "alive"
  /\ running = c
  /\ tpc = "run"
  /\ tpc' = "calls_disable"
  /\ UNCHANGED <<life, device, data, impl, registered, heap, running, idx,
                 pc, call, ret, attempts, warnings, error, reader, seen,
                 published, reported, fakeSince, nfake>>

\* meta_kms_device_disable called so.
MetaKmsDeviceDisableInTask(c) ==
  /\ life # "aborted"
  /\ running = c
  /\ tpc = "calls_disable"
  /\ IF ~ContextAssertion("disable", Context(c)) THEN Abort ELSE
     /\ impl' \in meta_kms_impl_device_disable(impl)
     /\ tpc' = "run"
     /\ UNCHANGED <<life, device, data, registered, heap, running, idx, pc,
                    call, ret, attempts, warnings, error, reader, seen,
                    published, reported, fakeSince, nfake>>

\* ------------------------------------------------------------ plane lookup
\* What a lookup returns when it found nothing.
NoPlane == [kind |-> "NULL"]

\* The CRTCs a caller may ask about: the device's, and one that is not.
LookupCrtcs == 1..(MaxCrtcs + 1)

\* meta_kms_plane_is_usable_with: the plane's CRTC set holds the CRTC.
meta_kms_plane_is_usable_with(plane, crtc) == plane.crtc = crtc

\* get_plane_with_type_for: the loop over the cached planes.
RECURSIVE get_plane_of_any_type_for(_, _, _)
get_plane_of_any_type_for(planes, crtc, type) ==
  IF planes = <<>> THEN NoPlane
  ELSE IF meta_kms_plane_is_usable_with(Head(planes), crtc) THEN Head(planes)
  ELSE get_plane_of_any_type_for(Tail(planes), crtc, type)

RECURSIVE get_plane_with_type_for(_, _, _)
get_plane_with_type_for(planes, crtc, type) ==
  IF planes = <<>> THEN NoPlane
  ELSE IF Head(planes).type # type
  THEN get_plane_with_type_for(Tail(planes), crtc, type)
  ELSE IF meta_kms_plane_is_usable_with(Head(planes), crtc) THEN Head(planes)
  ELSE get_plane_with_type_for(Tail(planes), crtc, type)

\* A caller looks a plane up; no task is dispatched.
GetPlaneFor(c, op, type) ==
  \E crtc \in LookupCrtcs :
    /\ life = "alive"
    /\ pc[c] = "idle"
    /\ pc' = [pc EXCEPT ![c] = "returned"]
    /\ ret' = [ret EXCEPT ![c] =
                 [op |-> op, crtc |-> crtc,
                  value |-> get_plane_with_type_for(
                              Items(heap, device.planes), crtc, type)]]
    /\ UNCHANGED <<life, device, data, impl, registered, heap, running, tpc,
                   idx, call, attempts, warnings, error, reader, seen,
                   published, reported, fakeSince, nfake>>

meta_kms_device_get_primary_plane_for(c) ==
  GetPlaneFor(c, "get_primary_plane_for", "primary")

meta_kms_device_get_cursor_plane_for(c) ==
  GetPlaneFor(c, "get_cursor_plane_for", "cursor")

\* The operations that read or change the cached lists.
CacheStep(c, most) ==
  \/ UpdateStatesSync(c)
  \/ MetaKmsDeviceUpdateStatesInImpl(c)
  \/ UpdateStatesSyncReturn(c)
  \/ AddFakePlane(c, most)
  \/ MetaKmsDeviceAddFakePlaneInImpl(c)
  \/ AddFakePlaneReturn(c)
  \/ Continue(c)

\* The device from construction to teardown, on any hardware.
Next ==
  \E c \in MainCallers :
    \/ MetaKmsDeviceNew(c, SUBSET CallerFlags)
    \/ MetaCreateKmsImplDevice(c, Outcomes, Hardware)
    \/ CreateImplDeviceInImpl(c)
    \/ MetaKmsDeviceNewReturn(c)
    \/ MetaKmsDeviceDisable(c)
    \/ DisableDeviceInImpl(c)
    \/ MetaKmsDeviceDisableReturn(c)
    \/ MetaKmsDeviceProcessUpdateSync(c)
    \/ ProcessUpdateInImpl(c)
    \/ MetaKmsDeviceProcessUpdateSyncReturn(c)
    \/ MetaKmsDeviceFinalize(c)
    \/ FreeImplDeviceInImpl(c)
    \/ MetaKmsDeviceFinalizeReturn(c)
    \/ CacheStep(c, MaxFakePlanes)

Spec == Init /\ [][Next]_vars

\* A device that opened at the first attempt, its cache refreshed and
\* extended while another context reads it.
NextReaders ==
  \/ \E c \in MainCallers :
       \/ MetaKmsDeviceNew(c, {{}})
       \/ MetaCreateKmsImplDevice(c, {"ok"}, PlainHardware)
       \/ CreateImplDeviceInImpl(c)
       \/ MetaKmsDeviceNewReturn(c)
       \/ CacheStep(c, MaxFakePlanes)
  \/ meta_kms_device_get_crtcs
  \/ meta_kms_device_get_connectors
  \/ meta_kms_device_get_planes
  \/ ReaderRelease

SpecReaders == Init /\ [][NextReaders]_vars

\* A device that opened at the first attempt, its planes refreshed, extended
\* by placeholders and looked up.
NextPlanes ==
  \E c \in MainCallers :
    \/ MetaKmsDeviceNew(c, {{}})
    \/ MetaCreateKmsImplDevice(c, {"ok"}, PlainHardware)
    \/ CreateImplDeviceInImpl(c)
    \/ MetaKmsDeviceNewReturn(c)
    \/ CacheStep(c, MaxLookupFakePlanes)
    \/ meta_kms_device_get_primary_plane_for(c)
    \/ meta_kms_device_get_cursor_plane_for(c)

SpecPlanes == Init /\ [][NextPlanes]_vars

\* A device that opened at the first attempt, with calls made in the right
\* context and in the wrong one.
NextContexts ==
  \E c \in MainCallers :
    \/ MetaKmsDeviceNew(c, {{}})
    \/ MetaCreateKmsImplDevice(c, {"ok"}, PlainHardware)
    \/ CreateImplDeviceInImpl(c)
    \/ MetaKmsDeviceNewReturn(c)
    \/ CacheStep(c, MaxFakePlanes)
    \/ FindInImpl(c)
    \/ meta_kms_device_find_crtc_in_impl(c)
    \/ meta_kms_device_find_connector_in_impl(c)
    \/ FindInImplReturn(c)
    \/ MetaKmsDeviceDisable(c)
    \/ DisableDeviceInImpl(c)
    \/ MetaKmsDeviceDisableReturn(c)
    \/ CallFromCaller(c)
    \/ TaskCallsDisable(c)
    \/ MetaKmsDeviceDisableInTask(c)

SpecContexts == Init /\ [][NextContexts]_vars

\* A device that opened at the first attempt, with lookups by kernel id
\* made as tasks of their own and by the backend while it refreshes.
NextFinds ==
  \E c \in MainCallers :
    \/ MetaKmsDeviceNew(c, {{}})
    \/ MetaCreateKmsImplDevice(c, {"ok"}, PlainHardware)
    \/ CreateImplDeviceInImpl(c)
    \/ MetaKmsDeviceNewReturn(c)
    \/ UpdateStatesSync(c)
    \/ UpdateStatesEntersBackend(c)
    \/ FindDuringUpdateStates(c)
    \/ UpdateStatesLeavesBackend(c)
    \/ UpdateStatesSyncReturn(c)
    \/ FindInImpl(c)
    \/ meta_kms_device_find_crtc_in_impl(c)
    \/ meta_kms_device_find_connector_in_impl(c)
    \/ FindInImplReturn(c)
    \/ Continue(c)

SpecFinds == Init /\ [][NextFinds]_vars

\* What a dispatched task of caller c does in the privileged context, up to
\* the return to the caller.
TaskStep(c) ==
  \/ MetaCreateKmsImplDevice(c, {"ok"}, PlainHardware)
  \/ CreateImplDeviceInImpl(c)
  \/ MetaKmsDeviceNewReturn(c)
  \/ DisableDeviceInImpl(c)
  \/ MetaKmsDeviceDisableReturn(c)
  \/ ProcessUpdateInImpl(c)
  \/ MetaKmsDeviceProcessUpdateSyncReturn(c)
  \/ FreeImplDeviceInImpl(c)
  \/ MetaKmsDeviceFinalizeReturn(c)

\* A device that opened at the first attempt and is then used by several
\* callers at once, until its owner drops it.
NextCallers ==
  \/ \E c \in MainCallers :
       \/ MetaKmsDeviceNew(c, {{}})
       \/ MetaKmsDeviceFinalize(c)
  \/ \E c \in Callers :
       \/ MetaKmsDeviceDisable(c)
       \/ MetaKmsDeviceProcessUpdateSync(c)
       \/ TaskStep(c)
       \/ Continue(c)

\* meta_kms_run_impl_task_sync runs the task it was given to its end, and
\* the backend answers: a dispatched task is not left standing.
SpecCallers ==
  Init /\ [][NextCallers]_vars /\ WF_vars(\E c \in Callers : TaskStep(c))

\* ================================================================= claims
Requested == data.flags
Tried == Len(attempts)
TypesTried == [i \in 1..Tried |-> attempts[i].type]
Failed(i) == attempts[i].outcome # "ok"
AllFailed == \A i \in 1..Tried : Failed(i)

\* The construction task has ended without a backend.
TaskFailed ==
  \/ tpc = "failed"
  \/ \E c \in Callers : InImpl(c, "new", "done") /\ ~call[c].result
  \/ \E c \in Callers : ret[c].op = "new" /\ ret[c].value = "NULL"

\* C1: a construction whose flags lack NO_MODE_SETTING tries Atomic, then
\* Simple, and Simple only after Atomic failed; nothing is tried after a
\* candidate succeeded, the candidate that succeeded is the backend adopted,
\* and no Dummy backend is made.
C1_AtomicThenSimple ==
  (life # "unborn" /\ "NO_MODE_SETTING" \notin Requested) =>
    /\ TypesTried \in {<<>>, <<"atomic">>, <<"atomic", "simple">>}
    /\ \A i \in 1..Tried : i < Tried => Failed(i)
    /\ impl.type # "none" =>
         /\ ~Failed(Tried)
         /\ impl.type = attempts[Tried].type
    /\ (Tried > 0 /\ ~Failed(Tried)) => impl.type = attempts[Tried].type
    /\ life = "alive" => device.impl_device = attempts[Tried].type
    /\ impl.type # "dummy"

C1_FellBackToSimple ==
  /\ life = "alive"
  /\ "NO_MODE_SETTING" \notin Requested
  /\ Tried = Len(impl_device_types)
  /\ Failed(1)
  /\ device.impl_device = "simple"

\* C2: a construction whose flags hold NO_MODE_SETTING makes one attempt,
\* for the Dummy backend; when that attempt fails nothing else is tried and
\* the caller gets no device and the error of that attempt.
C2_OnlyDummy ==
  (life # "unborn" /\ "NO_MODE_SETTING" \in Requested) =>
    /\ TypesTried \in {<<>>, <<"dummy">>}
    /\ impl.type \in {"none", "dummy"}
    /\ (Tried = 1 /\ Failed(1)) =>
         /\ impl.type = "none"
         /\ tpc # "select"
         /\ error = attempts[1].outcome
         /\ life \in {"new", "freed"}
         /\ \A c \in Callers :
              ret[c].op = "new" =>
                ret[c].value = "NULL" /\ ret[c].error = attempts[1].outcome

C2_DummyFailed ==
  /\ "NO_MODE_SETTING" \in Requested
  /\ attempts = <<[type |-> "dummy", outcome |-> "other_error"]>>
  /\ \E c \in Callers : ret[c].op = "new" /\ ret[c].error = "other_error"

\* The warnings the attempts made so far call for: one for each failure
\* whose error is not of the KMS domain, in order.
RECURSIVE WarningsFor(_)
WarningsFor(as) ==
  IF as = <<>> THEN <<>>
  ELSE LET a == as[Len(as)]
           before == WarningsFor(SubSeq(as, 1, Len(as) - 1))
       IN IF a.outcome = "other_error"
          THEN Append(before, impl_device_type_to_string(a.type))
          ELSE before

\* C3: without NO_MODE_SETTING a failed candidate, whatever its error, is
\* followed by the next candidate; construction fails only when Atomic and
\* Simple have both failed, and the caller then gets the one error "no
\* suitable backend"; a warning is logged for exactly the failures whose
\* error is not a KMS-domain error.
C3_FailuresFallThrough ==
  (life # "unborn" /\ "NO_MODE_SETTING" \notin Requested) =>
    /\ (Tried >= 1 /\ Failed(1) /\ tpc # "select") => Tried = 2
    /\ TaskFailed => Tried = 2 /\ AllFailed
    /\ (Tried = 2 /\ AllFailed) => TaskFailed \/ life = "freed"
    /\ error \in {NoError, NoSuitableBackend}
    /\ error = NoSuitableBackend <=> (Tried = 2 /\ AllFailed)
    /\ \A c \in Callers :
         (ret[c].op = "new" /\ ret[c].value = "NULL") =>
           ret[c].error = NoSuitableBackend
    /\ warnings = WarningsFor(attempts)

C3_ExhaustedAfterMixedErrors ==
  /\ "NO_MODE_SETTING" \notin Requested
  /\ attempts = <<[type |-> "atomic", outcome |-> "other_error"],
                  [type |-> "simple", outcome |-> "kms_error"]>>
  /\ warnings = <<"atomic modesetting">>
  /\ \E c \in Callers : ret[c].op = "new" /\ ret[c].error = NoSuitableBackend

\* C4: from a successful construction to the end of teardown the device's
\* impl_device is the one backend the construction task adopted and
\* registered, whatever disable, process_update_sync, update_states_in_impl
\* and add_fake_plane_in_impl calls were made.
C4_OneBackendBound ==
  life \in {"alive", "finalizing"} =>
    /\ device.impl_device \in {"atomic", "simple", "dummy"}
    /\ Tried > 0 /\ ~Failed(Tried)
    /\ device.impl_device = attempts[Tried].type
    /\ device.impl_device = impl.type
    /\ device.impl_device = data.out_impl_device
    /\ registered = {device.impl_device}

C4_StillBoundAfterCalls ==
  /\ life = "alive"
  /\ device.impl_device = "simple"
  /\ impl.disabled
  /\ nfake > 0
  /\ Cardinality(published) > 2
  /\ \E c \in Callers : ret[c].op = "process_update"

\* C5: when the construction task fails the caller gets the error and no
\* device, the handle is finalized, and no backend is bound to it or
\* registered with the privileged context.
C5_FailedConstructionLeavesNothing ==
  /\ TaskFailed =>
       /\ error # NoError
       /\ registered = {}
       /\ impl.type = "none"
       /\ device.impl_device = NoImplDevice
       /\ life \in {"new", "freed"}
  /\ \A c \in Callers :
       ret[c].op = "new" =>
         /\ ret[c].value = "NULL" <=> error # NoError
         /\ ret[c].error = error
         /\ ret[c].value = "NULL" => life = "freed" /\ running = NoCaller

C5_ConstructionFailed ==
  /\ life = "freed"
  /\ error = NoSuitableBackend
  /\ \E c \in Callers : ret[c].op = "new" /\ ret[c].value = "NULL"

\* What the three cached lists hold.
Cached == [crtcs |-> Items(heap, device.crtcs),
           connectors |-> Items(heap, device.connectors),
           planes |-> Items(heap, device.planes)]

\* C6 as claimed: on a live device the cached crtcs, connectors and planes
\* are what the backend copied out at the latest of the creation and the
\* update_states_in_impl calls that reported a change.
C6_CacheIsLastReport ==
  life = "alive" => Cached = reported

\* C6 as amended: the cached crtcs and connectors are what the backend
\* copied out then, and the cached planes are the planes it copied out then
\* followed by the planes add_fake_plane_in_impl has appended since, in the
\* order of the calls.
C6_CacheIsLastReportAndFakePlanes ==
  life = "alive" =>
    /\ Cached.crtcs = reported.crtcs
    /\ Cached.connectors = reported.connectors
    /\ Cached.planes = reported.planes \o fakeSince

C6_FakePlaneAfterRefresh ==
  /\ life = "alive"
  /\ Cardinality(published) > 2
  /\ reported.planes # <<>>
  /\ fakeSince # <<>>

\* C7: a context that has read the three cached lists holds heads that the
\* device cached together, all three at one time.
C7_NoTornSnapshot ==
  reader.got = {"crtcs", "connectors", "planes"} =>
    <<reader.crtcs, reader.connectors, reader.planes>> \in published

\* C8: a list a context got from a getter stays allocated and keeps the
\* elements it had when the context got it, for as long as the context
\* holds it.
C8_HeldListsAreImmutable ==
  \A f \in reader.got :
    /\ Live(heap, reader[f])
    /\ Items(heap, reader[f]) = seen[f]

\* An update_states_in_impl call of caller c runs in this step, and the
\* backend's answer is in call'[c].backend.
UpdateStatesRuns(c) == InImpl(c, "update_states", "run") /\ tpc' = "done"

\* C9: an update_states_in_impl call whose backend reports no change
\* returns the empty change set and leaves the three cached lists as they
\* are: the same heads, nothing freed, copied or rewritten.
C9_NoChangeKeepsCache ==
  [][\A c \in Callers :
       (UpdateStatesRuns(c)
          /\ call'[c].backend = META_KMS_UPDATE_CHANGE_NONE) =>
         /\ call'[c].changes = META_KMS_UPDATE_CHANGE_NONE
         /\ device' = device
         /\ heap' = heap]_vars

C9_NoChangeReported ==
  /\ \E c \in Callers :
       /\ InImpl(c, "update_states", "done")
       /\ call[c].backend = META_KMS_UPDATE_CHANGE_NONE
  /\ device.crtcs # NULL
  /\ device.connectors # NULL
  /\ device.planes # NULL

\* C10: an update_states_in_impl call whose backend reports a change, of
\* whatever kind, frees each of the three cached lists and replaces it by a
\* new copy of the backend's list as it is after the update, and returns
\* the backend's change set as it is.
C10_ChangeReplacesAllThree ==
  [][\A c \in Callers :
       (UpdateStatesRuns(c)
          /\ call'[c].backend # META_KMS_UPDATE_CHANGE_NONE) =>
         /\ call'[c].changes = call'[c].backend
         /\ Items(heap', device'.crtcs) = impl'.crtcs
         /\ Items(heap', device'.connectors) = impl'.connectors
         /\ Items(heap', device'.planes) = impl'.planes
         /\ \A i \in 1..3 :
              LET old == Snapshot(device)[i]
                  new == Snapshot(device')[i]
              IN /\ old # NULL => heap'.m[old].st = "freed"
                 /\ new # NULL => heap.m[new].st = "unused"
                                  /\ heap'.m[new].st = "live"]_vars

C10_AllThreeReplaced ==
  /\ \E c \in Callers :
       /\ InImpl(c, "update_states", "done")
       /\ call[c].backend = ChangeBits
  /\ device.crtcs # NULL
  /\ device.connectors # NULL
  /\ device.planes # NULL
  /\ \E a \in Addrs : heap.m[a].st = "freed"

\* No id occurs at two positions of the sequence s.
NoDuplicateIds(s) ==
  \A i, j \in 1..Len(s) : s[i].id = s[j].id => i = j

LookupType(op) ==
  IF op = "get_primary_plane_for" THEN "primary" ELSE "cursor"

\* The positions of the cached planes that have the type and are usable
\* with the CRTC a lookup named.
Matches(r) ==
  {i \in 1..Len(Cached.planes) :
     /\ Cached.planes[i].type = LookupType(r.op)
     /\ meta_kms_plane_is_usable_with(Cached.planes[i], r.crtc)}

\* C17: a primary (cursor) plane lookup for a CRTC returns the first cached
\* plane of type primary (cursor) that is usable with the CRTC, and NULL
\* exactly when the cached planes hold no such plane.
C17_FirstUsablePlaneOfType ==
  \A c \in Callers :
    ret[c].op \in {"get_primary_plane_for", "get_cursor_plane_for"} =>
      LET M == Matches(ret[c]) IN
        IF M = {} THEN ret[c].value = NoPlane
        ELSE \E i \in M :
               /\ \A j \in M : i <= j
               /\ ret[c].value = Cached.planes[i]

C17_FirstOfTwoFound ==
  \E c \in Callers :
    /\ ret[c].op = "get_primary_plane_for"
    /\ Cardinality(Matches(ret[c])) > 1
    /\ \E i \in 1..Len(Cached.planes) : Cached.planes[i].type = "cursor"

\* The callers whose task was dispatched and has not returned.
Waiting == {c \in Callers : pc[c] = "waiting"}

\* C12: with several callers calling process_update_sync, disable and the
\* other dispatching calls at once, at most one task is in the privileged
\* context at a time, it is the task of the one caller that waits, and a
\* caller gets the feedback of the update it submitted.
C12_OneTaskAtATime ==
  /\ Cardinality(Waiting) <= 1
  /\ \A c \in Callers : c \in Waiting <=> running = c
  /\ \A c \in Callers :
       ret[c].op = "process_update" => ret[c].feedback.update.id = c

C12_SecondUpdateAfterFirst ==
  /\ ret["c1"].op = "process_update"
  /\ InImpl("c2", "process_update", "done")
  /\ call["c2"].feedback.update.id = "c2"

\* C13: a caller that dispatched a task (construction, disable,
\* process_update_sync, teardown) stays suspended until that task is done in
\* the privileged context and only then resumes with the task's result, and
\* every dispatched task does get done and its caller resumes.
C13_CallsAreSynchronous ==
  /\ [][\A c \in Callers :
          (pc[c] = "waiting" /\ pc'[c] # "waiting") =>
            (running = c /\ tpc = "done" /\ pc'[c] = "returned")]_vars
  /\ \A c \in Callers : (pc[c] = "waiting") ~> (pc[c] = "returned")

C13_ReturnedWhileOtherWaits ==
  /\ pc["c2"] = "returned"
  /\ ret["c2"].op = "disable"
  /\ impl.disabled
  /\ pc["c1"] = "waiting"
  /\ call["c1"].op = "free"

\* C14: a process_update_sync call hands its caller one thing, the feedback
\* object the backend made for the update: a passed one, or a failed one
\* that carries the failure; a failed update never comes back as passed.
C14_FeedbackAsTheBackendGaveIt ==
  [][\A c \in Callers :
       (InImpl(c, "process_update", "done") /\ pc'[c] = "returned") =>
         /\ ret'[c] = [op |-> "process_update", feedback |-> call[c].feedback]
         /\ ret'[c].feedback.result \in {"passed", "failed"}
         /\ ret'[c].feedback.update = call[c].feedback.update]_vars

C14_FailureSurfaced ==
  \E c \in Callers :
    /\ pc[c] = "returned"
    /\ ret[c].op = "process_update"
    /\ ret[c].feedback.result = "failed"

\* C15: meta_kms_device_disable on a device that is already disabled leaves
\* the backend and the device as they are, and no disable call, whether the
\* backend managed to disable or not, returns anything to its caller or
\* sets an error.
C15_DisableIsIdempotent ==
  [][\A c \in Callers :
       /\ (InImpl(c, "disable", "run") /\ tpc' = "done" /\ impl.disabled) =>
            (impl' = impl /\ device' = device)
       /\ (InImpl(c, "disable", "done") /\ pc'[c] = "returned") =>
            (ret'[c] = [op |-> "disable"] /\ impl' = impl)
       /\ call[c].op = "disable" => error' = error]_vars

C15_DisabledTwice ==
  /\ ret["c1"].op = "disable"
  /\ ret["c2"].op = "disable"
  /\ impl.disabled

\* Caller c is about to run a function in a context it must not run in: a
\* privileged-only function in c's own context, or meta_kms_device_disable
\* inside c's task.
WrongContext(c) ==
  \/ pc[c] = "calling"
  \/ running = c /\ tpc = "calls_disable"

\* C16: update_states_in_impl, add_fake_plane_in_impl, find_crtc_in_impl,
\* find_connector_in_impl and the backend creation called from a caller
\* context, and meta_kms_device_disable called from the privileged context,
\* stop at their assertion: the program ends and the device, its cached
\* lists, the backend and the set of registered backends are as before.
C16_WrongContextStopsAtAssertion ==
  [][\A c \in Callers :
       (life # "aborted" /\ WrongContext(c)) =>
         /\ life' = "aborted"
         /\ UNCHANGED <<device, heap, impl, registered, published, attempts,
                        call, ret>>]_vars

C16_UpdateStatesFromCallerStopped ==
  /\ life = "aborted"
  /\ pc["c1"] = "calling"
  /\ call["c1"].op = "update_states"
  /\ device.planes # NULL
  /\ fakeSince # <<>>

\* What the backend reports of itself besides its topology.
Identity(x) ==
  [path |-> x.path, caps |-> x.caps, fallback_modes |-> x.fallback_modes,
   driver_name |-> x.driver_name,
   driver_description |-> x.driver_description]

\* C18: from a successful construction on, the device's path, capabilities,
\* fallback modes, driver name and driver description are those of the
\* adopted backend, also when its path is not the requested one; and when
\* meta_kms_device_new returns the device, its cached crtcs, connectors and
\* planes are the lists the backend held in the construction task.
C18_DeviceIsWhatTheBackendReported ==
  /\ life \in {"alive", "finalizing"} => Identity(device) = Identity(impl)
  /\ \A c \in Callers :
       (pc[c] = "returned" /\ ret[c].op = "new" /\ ret[c].value = "device") =>
         /\ Cached = reported
         /\ Cached = [crtcs |-> impl.crtcs, connectors |-> impl.connectors,
                      planes |-> impl.planes]

C18_CanonicalPathAdopted ==
  /\ life = "alive"
  /\ data.path = RequestedPath
  /\ device.path = CanonicalPath
  /\ device.driver_name # NoString
  /\ Cached.planes # <<>>
  /\ \E c \in Callers :
       pc[c] = "returned" /\ ret[c].op = "new" /\ ret[c].value = "device"

\* C19: from a successful construction on, the device's flags are the flags
\* the caller requested, with HAS_ADDFB2 added exactly when the adopted
\* backend's capabilities report addfb2_modifiers; and no step taken on a
\* constructed device changes them.
C19_FlagsAreRequestedPlusAddfb2 ==
  /\ [](life \in {"alive", "finalizing"} =>
         /\ data.flags \subseteq device.flags
         /\ device.flags \ data.flags =
              IF impl.caps.addfb2_modifiers THEN {"HAS_ADDFB2"} ELSE {})
  /\ [][(life \in {"alive", "finalizing"}) =>
          (device'.flags = device.flags)]_vars

C19_FlagsKeptAfterCalls ==
  /\ life = "alive"
  /\ device.flags = {"NO_MODE_SETTING", "BOOT_VGA", "HAS_ADDFB2"}
  /\ data.flags = {"NO_MODE_SETTING", "BOOT_VGA"}
  /\ impl.disabled
  /\ nfake > 0
  /\ \E c \in Callers : ret[c].op = "process_update"

\* The free_impl_device_in_impl task is at its g_object_unref.
FreeTaskRuns ==
  running \in Callers /\ call[running].op = "free" /\ tpc = "run"

\* C20: the backend of a device is released only by the
\* free_impl_device_in_impl task running in the privileged context while
\* the finalizing caller is suspended, that task only ever meets a backend
\* not yet released, and the device's memory is released only after the
\* task is done; a device with no backend is released with no such task
\* dispatched and nothing released.
C20_BackendFreedInImplBeforeDevice ==
  /\ [](life = "freed" =>
         (impl.released <=> device.impl_device # NoImplDevice))
  /\ []((impl.released /\ life # "freed") =>
         (life = "finalizing" /\ running \in Callers
            /\ pc[running] = "waiting" /\ tpc = "done"))
  /\ [][(impl.released # impl'.released) =>
          (FreeTaskRuns /\ Context(running) = "impl" /\ ~impl.released
             /\ life = "finalizing" /\ life' = "finalizing")]_vars
  /\ [][(FreeTaskRuns /\ ~FreeTaskRuns') =>
          (~impl.released /\ impl'.released /\ tpc' = "done")]_vars
  /\ [][(life # "freed" /\ life' = "freed") =>
          IF device.impl_device # NoImplDevice
          THEN /\ impl.released
               /\ running \in Callers /\ call[running].op = "free"
               /\ tpc = "done"
          ELSE /\ \A c \in Callers : call[c].op # "free"
               /\ ~impl'.released]_vars

C20_TornDownAfterRelease ==
  /\ life = "freed"
  /\ device.impl_device # NoImplDevice
  /\ impl.released
  /\ running = NoCaller
  /\ \E c \in Callers : ret[c].op = "unref"

\* meta_kms_device_add_fake_plane_in_impl runs for caller c, in the
\* privileged context, in this step.
AddFakePlaneRuns(c) ==
  InImpl(c, "add_fake_plane", "run") /\ tpc' = "done"

\* C21: a step of add_fake_plane_in_impl leaves the cached planes as they
\* were, in their order, followed by one new placeholder plane of the
\* requested type for the requested crtc, and leaves the cached crtcs and
\* connectors, the path, capabilities, fallback modes, driver strings and
\* flags and the bound backend as they were.
C21_FakePlaneAppended ==
  [][\A c \in Callers :
       AddFakePlaneRuns(c) =>
         /\ Len(Cached'.planes) = Len(Cached.planes) + 1
         /\ SubSeq(Cached'.planes, 1, Len(Cached.planes)) = Cached.planes
         /\ LET plane == Cached'.planes[Len(Cached'.planes)]
            IN /\ plane.fake
               /\ plane.type = call[c].plane_type
               /\ plane.crtc = call[c].crtc
         /\ Cached'.crtcs = Cached.crtcs
         /\ Cached'.connectors = Cached.connectors
         /\ device'.crtcs = device.crtcs
         /\ device'.connectors = device.connectors
         /\ Identity(device') = Identity(device)
         /\ device'.flags = device.flags
         /\ device'.impl_device = device.impl_device]_vars

C21_SecondFakePlaneLast ==
  /\ life = "alive"
  /\ tpc = "done"
  /\ \E c \in Callers : call[c].op = "add_fake_plane"
  /\ Len(Cached.planes) = 3
  /\ ~Cached.planes[1].fake
  /\ Cached.planes[2].fake /\ Cached.planes[2].type = "primary"
  /\ Cached.planes[3].fake /\ Cached.planes[3].type = "cursor"

\* find_crtc_in_impl (fn = "find_crtc") or find_connector_in_impl runs for
\* caller c in this step, as a task of its own or inside update_states.
FindRuns(c, fn) ==
  \/ InImpl(c, fn, "run") /\ tpc' = "done"
  \/ /\ InImpl(c, "update_states", "in_backend")
     /\ tpc' = "in_backend"
     /\ call'[c].find = fn

\* The first element of list with the id, or NULL.
FirstWithId(list, id) ==
  LET hits == {i \in 1..Len(list) : list[i].id = id}
  IN IF hits = {} THEN NoObject
     ELSE list[CHOOSE i \in hits : \A j \in hits : i <= j]

\* C22: find_crtc_in_impl and find_connector_in_impl return the first
\* element of the backend's live list of crtcs, respectively connectors,
\* that has the requested id, NULL when none has, whatever the device's
\* cached lists hold, and they change nothing of the device, its cache or
\* the backend.
C22_FindsSearchTheLiveList ==
  [][\A c \in Callers :
       /\ FindRuns(c, "find_crtc") =>
            call'[c].found = FirstWithId(impl.crtcs, call'[c].id)
       /\ FindRuns(c, "find_connector") =>
            call'[c].found = FirstWithId(impl.connectors, call'[c].id)
       /\ (FindRuns(c, "find_crtc") \/ FindRuns(c, "find_connector")) =>
            UNCHANGED <<life, device, data, impl, registered, heap, running,
                        pc, ret, published, reported, fakeSince>>]_vars

C22_FoundLiveCrtcNotYetCached ==
  \E c \in Callers :
    /\ InImpl(c, "update_states", "in_backend")
    /\ call[c].find = "find_crtc"
    /\ call[c].id = 1
    /\ call[c].found = Crtc(1)
    /\ Cached.crtcs = <<>>
    /\ impl.crtcs # <<>>

\* C23: meta_kms_device_process_update_sync hands its task to the
\* privileged context of the device argument's kms, and the backend that
\* processes the update is the backend of the device the update was made
\* for: the device argument's backend when the update is for that device,
\* and the other device's backend when it is for another.
C23_UpdateGoesToItsOwnDevice ==
  [][\A c \in Callers :
       /\ (pc[c] = "idle" /\ pc'[c] = "waiting"
             /\ call'[c].op = "process_update") =>
            (call'[c].kms = device.kms /\ running' = c)
       /\ (InImpl(c, "process_update", "run") /\ tpc' = "done") =>
            /\ call[c].update.device = "device" =>
                 call'[c].feedback.by = device.impl_device
            /\ call[c].update.device # "device" =>
                 /\ call'[c].feedback.by = "other-impl"
                 /\ call'[c].feedback.by # device.impl_device]_vars

C23_ProcessedByOtherBackend ==
  \E c \in Callers :
    /\ InImpl(c, "process_update", "done")
    /\ call[c].kms = device.kms
    /\ call[c].feedback.update.device = "other"
    /\ call[c].feedback.by = "other-impl"
    /\ device.impl_device \in {"atomic", "simple", "dummy"}

====
